---- MODULE Spec2Model ----
(***************************************************************************)
(* A model of edge-runtime/lib/response.ts: the server handler with its    *)
(* two module-scoped caches (Spec), buildResponse (SpecBuild) and the      *)
(* __NEXT_DATA__ text handler that buildResponse registers (SpecHtml).     *)
(***************************************************************************)
EXTENDS Naturals, Sequences, FiniteSets, TLC

VARIABLES
  \* ---- the server handler (response.ts 221-259)
  nextHandler,          \* module-scoped: Undefined, or the number of the getRequestHandlers call that produced it
  nextConfig,           \* module-scoped: Undefined, or the number of the getRunConfig call that produced it
  runConfig,            \* what setRunConfig last stored
  getRunConfigCalls,    \* calls of getRunConfig so far
  getRequestHandlersCalls, \* calls of getRequestHandlers so far
  pc,                   \* pc[i]: where invocation i of the default handler stands
  inv,                  \* inv[i]: the locals of invocation i (res, what it awaits, what happened)
  \* ---- buildResponse (response.ts 24-208)
  request,              \* the Request: method, url, headers, body
  result,               \* the FetchEventResult: result.response
  options,              \* nextConfig and requestLocale as passed in
  res,                  \* the headers of res (line 110)
  rewrite,              \* const rewrite (line 113)
  isDataReq,            \* const isDataReq (line 116)
  redirect,             \* let redirect (line 173)
  fetched,              \* the requests passed to fetch, in order
  contextNextCalls,     \* calls of context.next()
  returned,             \* what buildResponse returned, "pending" before
  bpc,                  \* where buildResponse stands
  \* ---- the __NEXT_DATA__ text handler (response.ts 71-103)
  chunks,               \* the text chunks of the script's text node, the last one lastInTextNode
  dataTransforms,       \* response.dataTransforms
  buffer,               \* let buffer (line 72)
  emitted               \* per chunk delivered so far, the text the rewriter lets through

hvars == <<nextHandler, nextConfig, runConfig, getRunConfigCalls,
           getRequestHandlersCalls, pc, inv>>

bvars == <<request, result, options, res, rewrite, isDataReq, redirect,
           fetched, contextNextCalls, returned, bpc>>

tvars == <<chunks, dataTransforms, buffer, emitted>>

vars == <<hvars, bvars, tvars>>

None == "none"

\* let nextHandler, nextConfig: undefined until assigned. The values assigned
\* are numbered from 1, by the call that produced them.
Undefined == 0

(***************************************************************************)
(* The server handler.                                                     *)
(***************************************************************************)

\* Invocations of the default handler that one runtime instance serves.
NumInvocations == 2

Invocations == 1..NumInvocations

\* Status codes the framework's handler may leave on res.
HandlerStatuses == {200, 404}

\* toReqRes(request): a fresh res, nothing written yet.
toReqRes == [statusCode |-> 200, ended |-> FALSE, body |-> None,
             cacheControl |-> FALSE, vary |-> Undefined]

NewInvocation == [res |-> None, awaited |-> Undefined, handlerCalls |-> 0,
                  threw |-> FALSE, outcome |-> None]

\* The catch block, with the statusCode assignment left out.
CatchKeepsStatus(r) == [r EXCEPT !.ended = TRUE, !.body = "Internal Server Error"]

\* catch (error) { console.error(error); res.statusCode = 500; res.end('Internal Server Error') }
Catch(r) == [r EXCEPT !.statusCode = 500, !.ended = TRUE,
                          !.body = "Internal Server Error"]

\* setCacheControlHeaders(res); setVaryHeaders(res, req, nextConfig)
SetHeaders(r, config) == [r EXCEPT !.cacheControl = TRUE, !.vary = config]

HInit ==
  /\ nextHandler = Undefined
  /\ nextConfig = Undefined
  /\ runConfig = Undefined
  /\ getRunConfigCalls = 0
  /\ getRequestHandlersCalls = 0
  /\ pc = [i \in Invocations |-> "idle"]
  /\ inv = [i \in Invocations |-> NewInvocation]

\* Lines 240-244: toReqRes, then the call of nextHandler, which is awaited.
CallHandler(i, handler) ==
  /\ pc' = [pc EXCEPT ![i] = "in_handler"]
  /\ inv' = [inv EXCEPT ![i].res = toReqRes,
                        ![i].awaited = handler,
                        ![i].handlerCalls = @ + 1]

\* The handler is invoked: if (!nextHandler) decides between initialisation
\* (up to the first await, the import of config.js) and the request itself.
Enter(i) ==
  /\ pc[i] = "idle"
  /\ IF nextHandler = Undefined
       THEN /\ pc' = [pc EXCEPT ![i] = "import_config"]
            /\ UNCHANGED inv
       ELSE CallHandler(i, nextHandler)
  /\ UNCHANGED <<nextHandler, nextConfig, runConfig, getRunConfigCalls,
                 getRequestHandlersCalls>>
  /\ UNCHANGED <<bvars, tvars>>

\* The import resolved: getRunConfig() is called and awaited.
GetRunConfig(i) ==
  /\ pc[i] = "import_config"
  /\ getRunConfigCalls' = getRunConfigCalls + 1
  /\ inv' = [inv EXCEPT ![i].awaited = getRunConfigCalls + 1]
  /\ pc' = [pc EXCEPT ![i] = "await_config"]
  /\ UNCHANGED <<nextHandler, nextConfig, runConfig, getRequestHandlersCalls>>
  /\ UNCHANGED <<bvars, tvars>>

\* nextConfig = await getRunConfig(); setRunConfig(nextConfig); then the
\* import of start-server.js is awaited.
RunConfigResolved(i) ==
  /\ pc[i] = "await_config"
  /\ nextConfig' = inv[i].awaited
  /\ runConfig' = inv[i].awaited
  /\ pc' = [pc EXCEPT ![i] = "import_server"]
  /\ UNCHANGED <<nextHandler, getRunConfigCalls, getRequestHandlersCalls, inv>>
  /\ UNCHANGED <<bvars, tvars>>

\* getRunConfig rejected: nothing catches it, the invocation rejects.
RunConfigRejected(i) ==
  /\ pc[i] = "await_config"
  /\ pc' = [pc EXCEPT ![i] = "rejected"]
  /\ inv' = [inv EXCEPT ![i].outcome = "error"]
  /\ UNCHANGED <<nextHandler, nextConfig, runConfig, getRunConfigCalls,
                 getRequestHandlersCalls>>
  /\ UNCHANGED <<bvars, tvars>>

\* The import resolved: getRequestHandlers({...}) is called and awaited.
GetRequestHandlers(i) ==
  /\ pc[i] = "import_server"
  /\ getRequestHandlersCalls' = getRequestHandlersCalls + 1
  /\ inv' = [inv EXCEPT ![i].awaited = getRequestHandlersCalls + 1]
  /\ pc' = [pc EXCEPT ![i] = "await_handlers"]
  /\ UNCHANGED <<nextHandler, nextConfig, runConfig, getRunConfigCalls>>
  /\ UNCHANGED <<bvars, tvars>>

\* ;[nextHandler] = await getRequestHandlers(...), and on to the request.
RequestHandlersResolved(i) ==
  /\ pc[i] = "await_handlers"
  /\ nextHandler' = inv[i].awaited
  /\ CallHandler(i, inv[i].awaited)
  /\ UNCHANGED <<nextConfig, runConfig, getRunConfigCalls, getRequestHandlersCalls>>
  /\ UNCHANGED <<bvars, tvars>>

\* getRequestHandlers rejected: the invocation rejects, nextHandler stays unset.
RequestHandlersRejected(i) ==
  /\ pc[i] = "await_handlers"
  /\ pc' = [pc EXCEPT ![i] = "rejected"]
  /\ inv' = [inv EXCEPT ![i].outcome = "error"]
  /\ UNCHANGED <<nextHandler, nextConfig, runConfig, getRunConfigCalls,
                 getRequestHandlersCalls>>
  /\ UNCHANGED <<bvars, tvars>>

\* Lines 251-258, which follow the try statement whichever way it ended.
Respond(i, r, threw) ==
  /\ inv' = [inv EXCEPT ![i].res = SetHeaders(r, nextConfig),
                        ![i].threw = threw,
                        ![i].outcome = "response"]
  /\ pc' = [pc EXCEPT ![i] = "returned"]

\* await nextHandler(req, res) resolved; the framework wrote its response.
HandlerReturns(i) ==
  /\ pc[i] = "in_handler"
  /\ \E s \in HandlerStatuses :
       Respond(i, [inv[i].res EXCEPT !.statusCode = s, !.ended = TRUE, !.body = "page"],
               FALSE)
  /\ UNCHANGED <<nextHandler, nextConfig, runConfig, getRunConfigCalls,
                 getRequestHandlersCalls>>
  /\ UNCHANGED <<bvars, tvars>>

\* await nextHandler(req, res) threw or rejected, whatever it had set before.
HandlerThrows(i) ==
  /\ pc[i] = "in_handler"
  /\ \E s \in HandlerStatuses :
       Respond(i, Catch([inv[i].res EXCEPT !.statusCode = s]), TRUE)
  /\ UNCHANGED <<nextHandler, nextConfig, runConfig, getRunConfigCalls,
                 getRequestHandlersCalls>>
  /\ UNCHANGED <<bvars, tvars>>

HNext ==
  \E i \in Invocations :
    \/ Enter(i)
    \/ GetRunConfig(i)
    \/ RunConfigResolved(i)
    \/ RunConfigRejected(i)
    \/ GetRequestHandlers(i)
    \/ RequestHandlersResolved(i)
    \/ RequestHandlersRejected(i)
    \/ HandlerReturns(i)
    \/ HandlerThrows(i)


(***************************************************************************)
(* Strings, URLs and headers.  A header value is Absent, a plain string or *)
(* a URL string; a URL string with origin "" is a relative reference with  *)
(* an absolute path.  A path is the sequence of its segments, as           *)
(* pathname.split('/') gives them after the leading empty one: "/" is      *)
(* <<"">>, "/en" is <<"en">>, "/en/" is <<"en", "">>.  Header values are   *)
(* non-empty strings, URLs carry no query and no fragment.                 *)
(***************************************************************************)

Absent == [k |-> "absent"]

Str(s) == [k |-> "str", s |-> s]

Url(o, p) == [k |-> "url", origin |-> o, pathname |-> p]

\* new URL(s, base) for a URL string s: a URL object
NewURL(s, base) ==
  [origin |-> IF s.origin = "" THEN base.origin ELSE s.origin,
   pathname |-> s.pathname]

\* url.toString()
UrlToString(u) == Url(u.origin, u.pathname)

Root == <<"">>

Json(seg) == seg \o ".json"

RouteNames == {"a", "b", "index"}

\* seg.replace(/\.json$/, '')
UnJson(seg) ==
  IF \E n \in RouteNames : seg = Json(n)
    THEN CHOOSE n \in RouteNames : seg = Json(n)
    ELSE seg

\* s.toLowerCase() on the segments modelled
ToLowerCase(seg) == IF seg = "EN" THEN "en" ELSE IF seg = "FR" THEN "fr" ELSE seg

\* urlPath.startsWith('/_next/data/') && urlPath.includes('.json')
IsDataPath(p) ==
  /\ Len(p) >= 3
  /\ p[1] = "_next"
  /\ p[2] = "data"
  /\ \E i \in 3..Len(p) : UnJson(p[i]) # p[i]

\* normalizeDataUrl of util.ts on a path: /_next/data/<build>/<route>.json
\* becomes /<route>, and / for the index route.
NormalizeDataPath(p) ==
  IF IsDataPath(p)
    THEN LET rest == [i \in 1..(Len(p) - 3) |->
                        IF i = Len(p) - 3 THEN UnJson(p[i + 3]) ELSE p[i + 3]]
         IN IF rest = <<>> \/ rest[1] = "index" THEN Root ELSE rest
    ELSE p

\* normalizeDataUrl of util.ts on a string: an absolute URL does not start
\* with /_next/data/ and is left alone.
normalizeDataUrl(s) ==
  IF s.origin = "" THEN Url("", NormalizeDataPath(s.pathname)) ELSE s

\* relativizeURL of util.ts: the URL resolved against base, without its
\* origin when that is the base's.
relativizeURL(url, base) ==
  LET baseURL == NewURL(base, base)
      relative == NewURL(url, base)
  IN IF relative.origin = baseURL.origin
       THEN Url("", relative.pathname)
       ELSE UrlToString(relative)

\* normalizeLocalePath of util.ts: the first configured locale that equals
\* the first segment, case-insensitively, is detected and spliced out.
normalizeLocalePath(pathname, locales) ==
  LET hit == {i \in 1..Len(locales) :
                pathname[1] # "" /\ ToLowerCase(pathname[1]) = ToLowerCase(locales[i])}
  IN IF hit = {}
       THEN [pathname |-> pathname, detectedLocale |-> None]
       ELSE LET first == CHOOSE i \in hit : \A j \in hit : i <= j
            IN [pathname |-> IF Tail(pathname) = <<>> THEN Root ELSE Tail(pathname),
                detectedLocale |-> locales[first]]

\* path !== '/' && path.endsWith('/') ? path.slice(0, -1) : path
stripTrailingSlash(p) ==
  IF p # Root /\ p[Len(p)] = "" THEN SubSeq(p, 1, Len(p) - 1) ELSE p

\* path === '/' ? '/index' : path
normalizeIndex(p) == IF p = Root THEN <<"index">> ELSE p

\* rewriteDataPath of util.ts with no basePath: the route inside dataUrl is
\* replaced by newRoute; a dataUrl that is itself a route becomes newRoute.
rewriteDataPath(dataUrl, newRoute) ==
  LET route == stripTrailingSlash(newRoute)
  IN IF IsDataPath(dataUrl)
       THEN SubSeq(dataUrl, 1, 3) \o
            [i \in 1..Len(route) |-> IF i = Len(route) THEN Json(route[i]) ELSE route[i]]
       ELSE IF normalizeIndex(dataUrl) = dataUrl THEN route ELSE dataUrl

(***************************************************************************)
(* buildResponse.                                                          *)
(***************************************************************************)

ReqHeaderNames == {"accept", "x-nextjs-data", "x-nf-request-id",
                   "x-nf-next-middleware", "x-middleware-rewrite"}

ResHeaderNames == {"x-middleware-rewrite", "location", "x-middleware-next",
                   "x-nextjs-redirect", "x-nextjs-rewrite",
                   "x-middleware-override-headers", "x-middleware-request-accept"}

\* key.startsWith('x-nf-'), over the header names modelled
StartsWithXNf(key) == key \in {"x-nf-request-id", "x-nf-next-middleware"}

NoHeaders(names) == [n \in names |-> Absent]

Origin == "o1"

DataRequestPath == <<"_next", "data", "B", "a.json">>

RequestPaths == {<<"a">>, DataRequestPath}

RewriteValues ==
  {Absent, Url("", <<"b">>), Url("", <<"a">>), Url("o1", <<"a">>),
   Url("o1", <<"b", "">>), Url("o2", <<"a">>)}

LocationValues ==
  {Absent, Url("", <<"b">>), Url("", <<"en", "b">>), Url("", <<"EN", "b">>),
   Url("", <<"fr">>), Url("", <<"api", "b">>), Url("", <<"api">>), Url("", Root),
   Url("o2", <<"b">>), Url("", <<"_next", "data", "B", "b.json">>)}

MiddlewareNextValues == {Absent, Str("1"), Str("0")}

NextjsRedirectValues == {Absent, Url("", <<"_next", "data", "B", "index.json">>)}

RequestLocales == {None, "en", "fr"}

LocaleConfigs == {<<>>, <<"en", "fr">>}

\* The requests buildResponse is given: nothing of the adapter's on them yet.
Requests(methods) ==
  {[method |-> m,
    url |-> Url(Origin, p),
    body |-> (m = "POST"),
    bodyUsed |-> FALSE,
    headers |-> [n \in ReqHeaderNames |->
                   CASE n = "accept" -> Str("html")
                     [] n = "x-nextjs-data" -> d
                     [] n = "x-nf-request-id" -> Str("id")
                     [] OTHER -> Absent]] :
     m \in methods, p \in RequestPaths, d \in {Absent, Str("1")}}

\* The headers of a plain middleware response.
ResponseHeaders ==
  {[n \in ResHeaderNames |->
      CASE n = "x-middleware-rewrite" -> rw
        [] n = "location" -> loc
        [] n = "x-middleware-next" -> nx
        [] n = "x-nextjs-redirect" -> nr
        [] n = "x-middleware-override-headers" -> ov
        [] n = "x-middleware-request-accept" -> IF ov = Absent THEN Absent ELSE Str("json")
        [] OTHER -> Absent] :
     rw \in RewriteValues, loc \in LocationValues, nx \in MiddlewareNextValues,
     nr \in NextjsRedirectValues, ov \in {Absent, Str("accept")}}

Options ==
  {[nextConfig |-> [i18n |-> [locales |-> ls]], requestLocale |-> l] :
     ls \in LocaleConfigs, l \in RequestLocales}

\* result.response is a plain Response, a MiddlewareRequest or a
\* MiddlewareResponse, with what the branch at 43-109 reads of it: whether the
\* origin response is JSON, the set-cookie of response.cookies and the
\* set-cookie of the origin response.
Results ==
  {[kind |-> "Response", headers |-> h, json |-> FALSE, cookies |-> Absent,
    originSetCookie |-> Absent] : h \in ResponseHeaders}
  \cup
  {[kind |-> k, headers |-> NoHeaders(ResHeaderNames), json |-> j, cookies |-> c,
    originSetCookie |-> o] :
     k \in {"MiddlewareRequest", "MiddlewareResponse"}, j \in BOOLEAN,
     c \in {Absent, Str("session")}, o \in {Absent, Str("origin")}}

BInit ==
  /\ result \in Results
  /\ request \in Requests(IF result.kind = "Response"
                            THEN {"GET", "POST"} ELSE {"GET", "HEAD", "POST"})
  /\ options \in (IF result.kind = "Response" THEN Options
                  ELSE {[nextConfig |-> [i18n |-> [locales |-> <<>>]],
                         requestLocale |-> None]})
  /\ res = NoHeaders(ResHeaderNames)
  /\ rewrite = Absent
  /\ isDataReq = FALSE
  /\ redirect = Absent
  /\ fetched = <<>>
  /\ contextNextCalls = 0
  /\ returned = "pending"
  /\ bpc = "start"

\* The build variables while another part of the module runs.
BIdle ==
  /\ result = [kind |-> "Response", headers |-> NoHeaders(ResHeaderNames),
               json |-> FALSE, cookies |-> Absent, originSetCookie |-> Absent]
  /\ request = [method |-> "GET", url |-> Url(Origin, <<"a">>), body |-> FALSE,
                bodyUsed |-> FALSE, headers |-> NoHeaders(ReqHeaderNames)]
  /\ options = [nextConfig |-> [i18n |-> [locales |-> <<>>]], requestLocale |-> None]
  /\ res = NoHeaders(ResHeaderNames)
  /\ rewrite = Absent
  /\ isDataReq = FALSE
  /\ redirect = Absent
  /\ fetched = <<>>
  /\ contextNextCalls = 0
  /\ returned = "idle"
  /\ bpc = "idle"

\* updateModifiedHeaders of headers.ts, on the request's headers: each header
\* named by x-middleware-override-headers takes the value of the response's
\* x-middleware-request-<name>.
updateModifiedRequest(requestHeaders, responseHeaders) ==
  IF responseHeaders["x-middleware-override-headers"] = Str("accept")
    THEN [requestHeaders EXCEPT !["accept"] = responseHeaders["x-middleware-request-accept"]]
    ELSE requestHeaders

\* updateModifiedHeaders of headers.ts, on the response's headers: the
\* override headers are consumed.
updateModifiedResponse(responseHeaders) ==
  [responseHeaders EXCEPT !["x-middleware-override-headers"] = Absent,
                          !["x-middleware-request-accept"] = Absent]

\* Lines 32-43: updateModifiedHeaders, then a MiddlewareRequest is continued
\* with its next(), which calls context.next() and wraps the origin's
\* response in a MiddlewareResponse.
BuildEnter ==
  /\ bpc = "start"
  /\ request' = [request EXCEPT
                   !.headers = updateModifiedRequest(@, result.headers)]
  /\ IF result.kind = "MiddlewareRequest"
       THEN /\ result' = [result EXCEPT !.kind = "MiddlewareResponse",
                                        !.headers = updateModifiedResponse(@)]
            /\ contextNextCalls' = contextNextCalls + 1
       ELSE /\ result' = [result EXCEPT !.headers = updateModifiedResponse(@)]
            /\ UNCHANGED contextNextCalls
  /\ bpc' = IF result.kind = "Response" THEN "plain" ELSE "middleware_response"
  /\ UNCHANGED <<options, res, rewrite, isDataReq, redirect, fetched, returned>>
  /\ UNCHANGED <<hvars, tvars>>

\* Lines 43-109: a MiddlewareResponse is answered from its origin response,
\* after the cookies are copied onto it unless the method is HEAD or OPTIONS.
MiddlewareResponseBranch ==
  /\ bpc = "middleware_response"
  /\ IF request.method = "HEAD" \/ request.method = "OPTIONS"
       THEN /\ returned' = "response.originResponse"
            /\ UNCHANGED result
       ELSE /\ returned' = IF result.json THEN "Response.json" ELSE "rewriter.transform"
            /\ result' = [result EXCEPT !.originSetCookie =
                                          IF result.cookies # Absent THEN result.cookies ELSE @]
  /\ bpc' = "done"
  /\ UNCHANGED <<request, options, res, rewrite, isDataReq, redirect,
                 fetched, contextNextCalls>>
  /\ UNCHANGED <<hvars, tvars>>

\* Lines 110-116: res, the skip header on the request, rewrite, isDataReq.
NewResponse ==
  /\ bpc = "plain"
  /\ res' = result.headers
  /\ request' = [request EXCEPT !.headers["x-nf-next-middleware"] = Str("skip")]
  /\ rewrite' = result.headers["x-middleware-rewrite"]
  /\ isDataReq' = (request.headers["x-nextjs-data"] # Absent)
  /\ bpc' = IF result.headers["x-middleware-rewrite"] # Absent THEN "rewrite" ELSE "redirect"
  /\ UNCHANGED <<result, options, redirect, fetched, contextNextCalls, returned>>
  /\ UNCHANGED <<hvars, tvars>>

\* const rewriteUrl = new URL(rewrite, request.url)
rewriteUrl == NewURL(rewrite, request.url)

\* const baseUrl = new URL(request.url)
baseUrl == NewURL(request.url, request.url)

\* const relativeUrl = relativizeURL(rewrite, request.url)
relativeUrl == relativizeURL(rewrite, request.url)

\* const originalPath = new URL(request.url, `http://n`).pathname
originalPath == NewURL(request.url, Url("n", Root)).pathname

\* A self-rewrite that is not noticed.
SameUrlNever(a, b) == FALSE

\* rewriteUrl.toString() === baseUrl.toString()
SameUrl(a, b) == UrlToString(a) = UrlToString(b)

\* rewriteUrl.origin !== baseUrl.origin
IsExternal(a, b) == a.origin # b.origin

\* The return statements of the rewrite branch, left out.
AfterRewriteFallsThrough == "redirect"

\* return addMiddlewareHeaders(fetch(...), res), lines 160 and 170
AfterRewrite == "done"

\* if (isDataReq) res.headers.set('x-nextjs-rewrite', relativeUrl)
WithNextjsRewrite(h, dataReq, relative) ==
  IF dataReq THEN [h EXCEPT !["x-nextjs-rewrite"] = relative] ELSE h

\* Lines 118-126: the rewrite is the request's own URL.
RewriteSameUrl ==
  /\ bpc = "rewrite"
  /\ SameUrl(rewriteUrl, baseUrl)
  /\ returned' = "undefined"
  /\ bpc' = "done"
  /\ UNCHANGED <<request, result, options, res, rewrite, isDataReq, redirect,
                 fetched, contextNextCalls>>
  /\ UNCHANGED <<hvars, tvars>>

\* The proxy request's headers with nothing filtered out.
ProxyHeadersUnfiltered(headers) == headers

\* new Headers([...request.headers.entries()].filter(([key]) => !key.startsWith('x-nf-')))
ProxyHeaders(headers) ==
  [n \in ReqHeaderNames |-> IF StartsWithXNf(n) THEN Absent ELSE headers[n]]

\* new Request(rewriteUrl, { headers, method: request.method, body })
ProxyRequest(url, req) ==
  [url |-> url, method |-> req.method, headers |-> ProxyHeaders(req.headers),
   body |-> (req.body /\ ~req.bodyUsed), proxy |-> TRUE]

\* Lines 128-160: a rewrite to another origin is proxied.
RewriteExternal ==
  /\ bpc = "rewrite"
  /\ ~SameUrl(rewriteUrl, baseUrl)
  /\ IsExternal(rewriteUrl, baseUrl)
  /\ res' = WithNextjsRewrite(res, isDataReq, relativeUrl)
  /\ fetched' = Append(fetched, ProxyRequest(rewriteUrl, request))
  /\ request' = [request EXCEPT !.bodyUsed = @ \/ request.body]
  /\ returned' = "addMiddlewareHeaders(fetch)"
  /\ bpc' = AfterRewrite
  /\ UNCHANGED <<result, options, rewrite, isDataReq, redirect, contextNextCalls>>
  /\ UNCHANGED <<hvars, tvars>>

\* The same-origin target with the data path left as the route.
InternalTargetNoDataPath(url, dataUrl, dataReq) == url

\* else if (isDataReq) rewriteUrl.pathname = rewriteDataPath({...}), lines 161-167
InternalTarget(url, dataUrl, dataReq) ==
  IF dataReq
    THEN [url EXCEPT !.pathname = rewriteDataPath(dataUrl, url.pathname)]
    ELSE url

\* request.headers.set('x-middleware-rewrite', rewrite)
RetargetedHeaders(headers, value) == [headers EXCEPT !["x-middleware-rewrite"] = value]

\* new Request(rewriteUrl, request)
RetargetedRequest(url, req) ==
  [url |-> url, method |-> req.method, headers |-> req.headers,
   body |-> req.body, proxy |-> FALSE]

\* Lines 128-136 and 161-170: a rewrite within the origin is fetched with the
\* request itself.
RewriteInternal ==
  /\ bpc = "rewrite"
  /\ ~SameUrl(rewriteUrl, baseUrl)
  /\ ~IsExternal(rewriteUrl, baseUrl)
  /\ res' = [WithNextjsRewrite(res, isDataReq, relativeUrl)
               EXCEPT !["x-middleware-rewrite"] = relativeUrl]
  /\ request' = [request EXCEPT !.headers = RetargetedHeaders(@, rewrite)]
  /\ fetched' = Append(fetched,
                  RetargetedRequest(InternalTarget(rewriteUrl, originalPath, isDataReq),
                                    request'))
  /\ returned' = "addMiddlewareHeaders(fetch)"
  /\ bpc' = AfterRewrite
  /\ UNCHANGED <<result, options, rewrite, isDataReq, redirect, contextNextCalls>>
  /\ UNCHANGED <<hvars, tvars>>

\* redirectUrl.pathname.startsWith(`/api/`)
StartsWithApi(p) == Len(p) >= 2 /\ p[1] = "api"

\* The locale put in front of the redirect path as it is.
LocaleRedirectPrefixOnly(location, url, locales, requestLocale) ==
  IF location # Absent /\ requestLocale # None
    THEN LET redirectUrl == NewURL(location, url)
         IN UrlToString([redirectUrl EXCEPT !.pathname = <<requestLocale>> \o @])
    ELSE location

\* Lines 173-188: the value of redirect after the locale handling.
LocaleRedirect(location, url, locales, requestLocale) ==
  IF location # Absent /\ requestLocale # None
    THEN LET redirectUrl == NewURL(location, url)
             normalizedRedirect == normalizeLocalePath(redirectUrl.pathname, locales)
             locale == IF normalizedRedirect.detectedLocale # None
                         THEN normalizedRedirect.detectedLocale
                         ELSE requestLocale
         IN IF locale # None /\ ~StartsWithApi(redirectUrl.pathname)
              THEN UrlToString([redirectUrl EXCEPT
                                  !.pathname = <<locale>> \o normalizedRedirect.pathname])
              ELSE location
    ELSE location

\* Lines 173-188: redirect, and the location header when the locale is spliced in.
RedirectLocale ==
  /\ bpc = "redirect"
  /\ redirect' = LocaleRedirect(res["location"], request.url,
                                options.nextConfig.i18n.locales, options.requestLocale)
  /\ res' = [res EXCEPT !["location"] = redirect']
  /\ bpc' = "data_redirect"
  /\ UNCHANGED <<request, result, options, rewrite, isDataReq, fetched,
                 contextNextCalls, returned>>
  /\ UNCHANGED <<hvars, tvars>>

\* The data-request handling with the location header left in place.
DataRedirectKeepsLocation(headers, target, dataReq, url) ==
  LET moved == IF target # Absent /\ dataReq
                 THEN [headers EXCEPT !["x-nextjs-redirect"] = relativizeURL(target, url)]
                 ELSE headers
      nextRedirect == moved["x-nextjs-redirect"]
  IN IF nextRedirect # Absent /\ dataReq
       THEN [moved EXCEPT !["x-nextjs-redirect"] = normalizeDataUrl(nextRedirect)]
       ELSE moved

\* Lines 190-200: the headers of res after the data-request handling.
DataRedirect(headers, target, dataReq, url) ==
  LET moved == IF target # Absent /\ dataReq
                 THEN [headers EXCEPT !["location"] = Absent,
                                      !["x-nextjs-redirect"] = relativizeURL(target, url)]
                 ELSE headers
      nextRedirect == moved["x-nextjs-redirect"]
  IN IF nextRedirect # Absent /\ dataReq
       THEN [moved EXCEPT !["x-nextjs-redirect"] = normalizeDataUrl(nextRedirect)]
       ELSE moved

\* Lines 190-200.
DataRequestRedirect ==
  /\ bpc = "data_redirect"
  /\ res' = DataRedirect(res, redirect, isDataReq, request.url)
  /\ bpc' = "middleware_next"
  /\ UNCHANGED <<request, result, options, rewrite, isDataReq, redirect, fetched,
                 contextNextCalls, returned>>
  /\ UNCHANGED <<hvars, tvars>>

\* Any x-middleware-next header taken as the directive.
IsMiddlewareNextAnyValue(headers) == headers["x-middleware-next"] # Absent

\* res.headers.get('x-middleware-next') === '1'
IsMiddlewareNext(headers) == headers["x-middleware-next"] = Str("1")

\* Lines 202-205: the request continues to the origin.
MiddlewareNext ==
  /\ bpc = "middleware_next"
  /\ IsMiddlewareNext(res)
  /\ res' = [res EXCEPT !["x-middleware-next"] = Absent]
  /\ contextNextCalls' = contextNextCalls + 1
  /\ returned' = "addMiddlewareHeaders(context.next)"
  /\ bpc' = "done"
  /\ UNCHANGED <<request, result, options, rewrite, isDataReq, redirect, fetched>>
  /\ UNCHANGED <<hvars, tvars>>

\* Line 207: return res.
ReturnRes ==
  /\ bpc = "middleware_next"
  /\ ~IsMiddlewareNext(res)
  /\ returned' = "res"
  /\ bpc' = "done"
  /\ UNCHANGED <<request, result, options, res, rewrite, isDataReq, redirect,
                 fetched, contextNextCalls>>
  /\ UNCHANGED <<hvars, tvars>>

BNext ==
  \/ BuildEnter
  \/ MiddlewareResponseBranch
  \/ NewResponse
  \/ RewriteSameUrl
  \/ RewriteExternal
  \/ RewriteInternal
  \/ RedirectLocale
  \/ DataRequestRedirect
  \/ MiddlewareNext
  \/ ReturnRes


(***************************************************************************)
(* The text handler on script[id="__NEXT_DATA__"].  A text is the sequence *)
(* of its characters.  The JSON documents modelled are a number d, and an  *)
(* object written {} or {d} (d the value of its props member), with        *)
(* whitespace allowed around every token.                                  *)
(***************************************************************************)

\* Chunks a text node is delivered in.
MaxChunks == 3

Digits == {"0", "1"}

ChunkTexts ==
  {<<>>, <<"{">>, <<"}">>, <<"0">>, <<" ">>, <<"{", "0">>, <<"1", "}">>,
   <<" ", "{">>, <<"}", " ">>, <<"{", "}">>}

TransformLists ==
  {<<>>, <<"flip">>, <<"setOne">>, <<"flip", "setOne">>, <<"setOne", "flip">>}

RECURSIVE Concat(_)
Concat(ts) == IF ts = <<>> THEN <<>> ELSE Head(ts) \o Concat(Tail(ts))

RECURSIVE TrimStart(_)
TrimStart(t) == IF t # <<>> /\ Head(t) = " " THEN TrimStart(Tail(t)) ELSE t

RECURSIVE TrimEnd(_)
TrimEnd(t) ==
  IF t # <<>> /\ t[Len(t)] = " " THEN TrimEnd(SubSeq(t, 1, Len(t) - 1)) ELSE t

\* buffer.trim()
Trim(t) == TrimEnd(TrimStart(t))

\* The tokens of a text: its characters without the whitespace between them.
Tokens(t) == SelectSeq(t, LAMBDA c : c # " ")

\* JSON.parse(text): ok says whether it parsed; props is data.props.
JSONParse(t) ==
  LET toks == Tokens(t)
  IN CASE toks = <<"{", "}">> ->
            [ok |-> TRUE, object |-> TRUE, props |-> "undefined"]
       [] Len(toks) = 3 /\ toks[1] = "{" /\ toks[2] \in Digits /\ toks[3] = "}" ->
            [ok |-> TRUE, object |-> TRUE, props |-> toks[2]]
       [] Len(toks) = 1 /\ toks[1] \in Digits /\ Len(Trim(t)) = 1 ->
            [ok |-> TRUE, object |-> FALSE, props |-> "undefined"]
       [] OTHER -> [ok |-> FALSE, object |-> FALSE, props |-> "undefined"]

\* transform(prev)
Apply(transform, prev) ==
  IF transform = "setOne" THEN "1"
  ELSE IF prev = "0" THEN "1" ELSE IF prev = "1" THEN "0" ELSE prev

\* response.dataTransforms.reduce((prev, transform) => transform(prev), data.props)
RECURSIVE Reduce(_, _)
Reduce(transforms, props) ==
  IF transforms = <<>> THEN props
  ELSE Reduce(Tail(transforms), Apply(Head(transforms), props))

\* JSON.stringify({ ...data, props }): a member that is undefined is left out
JSONStringify(props) == IF props = "undefined" THEN <<"{", "}">> ELSE <<"{", props, "}">>

TInit ==
  /\ chunks \in UNION {[1..n -> ChunkTexts] : n \in 1..MaxChunks}
  /\ dataTransforms \in TransformLists
  /\ buffer = <<>>
  /\ emitted = <<>>

TIdle ==
  /\ chunks = <<>>
  /\ dataTransforms = <<>>
  /\ buffer = <<>>
  /\ emitted = <<>>

\* lastInTextNode of the chunk about to be delivered
lastInTextNode == Len(emitted) + 1 = Len(chunks)

\* textChunk.text of the chunk about to be delivered
textChunk == chunks[Len(emitted) + 1]

\* No handler is registered (line 76): the rewriter passes the chunk on.
TextUnhandled ==
  /\ Len(emitted) < Len(chunks)
  /\ Len(dataTransforms) = 0
  /\ emitted' = Append(emitted, textChunk)
  /\ UNCHANGED <<chunks, dataTransforms, buffer>>
  /\ UNCHANGED <<hvars, bvars>>

\* Lines 97-100: a chunk that is not the last is buffered and removed.
TextBuffered ==
  /\ Len(emitted) < Len(chunks)
  /\ Len(dataTransforms) > 0
  /\ ~lastInTextNode
  /\ buffer' = buffer \o textChunk
  /\ emitted' = Append(emitted, <<>>)
  /\ UNCHANGED <<chunks, dataTransforms>>
  /\ UNCHANGED <<hvars, bvars>>

\* Lines 80-96: the last chunk; the buffer is parsed, and the chunk replaced
\* unless the parse or the transforms threw.
TextLast ==
  /\ Len(emitted) < Len(chunks)
  /\ Len(dataTransforms) > 0
  /\ lastInTextNode
  /\ buffer' = buffer \o textChunk
  /\ LET data == JSONParse(Trim(buffer'))
     IN emitted' = Append(emitted,
                     IF data.ok
                       THEN JSONStringify(Reduce(dataTransforms, data.props))
                       ELSE textChunk)
  /\ UNCHANGED <<chunks, dataTransforms>>
  /\ UNCHANGED <<hvars, bvars>>

TNext ==
  \/ TextUnhandled
  \/ TextBuffered
  \/ TextLast

HIdle == HInit

Init == HInit /\ BIdle /\ TIdle

Next == HNext

Spec == Init /\ [][Next]_vars

InitBuild == BInit /\ HIdle /\ TIdle

NextBuild == BNext

SpecBuild == InitBuild /\ [][NextBuild]_vars

InitHtml == TInit /\ HIdle /\ BIdle

NextHtml == TNext

SpecHtml == InitHtml /\ [][NextHtml]_vars

\* C1: when nextHandler(req, res) throws or rejects, the handler catches it
\* and does not reject itself: the status is 500, setCacheControlHeaders and
\* setVaryHeaders are applied, a response is returned, and nextHandler was
\* called exactly once by that invocation.
C1_ErrorBecomes500 ==
  \A i \in Invocations :
    inv[i].threw =>
      /\ pc[i] = "returned"
      /\ inv[i].outcome = "response"
      /\ inv[i].res.statusCode = 500
      /\ inv[i].res.cacheControl
      /\ inv[i].res.vary # Undefined
      /\ inv[i].handlerCalls = 1

C1_Witness ==
  \E i \in Invocations : inv[i].threw /\ pc[i] = "returned"

\* C2: getRunConfig and getRequestHandlers are each called at most once, and
\* nextHandler and nextConfig never change once assigned.
C2_PopulatedOnce ==
  [][ /\ getRunConfigCalls' <= 1
      /\ getRequestHandlersCalls' <= 1
      /\ (nextHandler # Undefined => nextHandler' = nextHandler)
      /\ (nextConfig # Undefined => nextConfig' = nextConfig) ]_vars

(***************************************************************************)
(* buildResponse: what the claims speak of.                                *)
(***************************************************************************)

\* result.response as it was given: a plain Response
IsPlain == result.kind = "Response" /\ bpc # "idle"

\* The x-middleware-rewrite, location and x-middleware-next headers of the
\* response as given, and the URL the rewrite resolves to.
GivenRewrite == result.headers["x-middleware-rewrite"]

GivenLocation == result.headers["location"]

GivenNext == result.headers["x-middleware-next"]

GivenRewriteUrl == NewURL(GivenRewrite, request.url)

RequestUrl == NewURL(request.url, request.url)

IsDataRequest == request.headers["x-nextjs-data"] # Absent

\* A rewrite to a URL that is not the request's own.
RewritesElsewhere ==
  IsPlain /\ GivenRewrite # Absent /\ GivenRewriteUrl # RequestUrl

\* C3: buildResponse calls fetch at most once, and never both fetch and
\* context.next().
C3_OneOutboundCall ==
  /\ Len(fetched) <= 1
  /\ ~(Len(fetched) >= 1 /\ contextNextCalls >= 1)

C3_Witness ==
  /\ bpc = "done"
  /\ Len(fetched) = 1
  /\ GivenNext = Str("1")
  /\ GivenLocation # Absent
  /\ IsDataRequest

\* What C4 says of every rewrite to another URL, but for the URL fetched
\* within the origin: the fetch, its merge through addMiddlewareHeaders, the
\* redirect and x-middleware-next handling never reached, a proxy request
\* across origins and the request itself within the origin, carrying
\* x-middleware-rewrite set to the rewrite as given.
C4_FetchesRewrite(sameOriginTarget) ==
  RewritesElsewhere =>
    /\ bpc \in {"start", "plain", "rewrite", "done"}
    /\ redirect = Absent
    /\ contextNextCalls = 0
    /\ bpc = "done" =>
         /\ returned = "addMiddlewareHeaders(fetch)"
         /\ Len(fetched) = 1
         /\ res["location"] = GivenLocation
         /\ res["x-middleware-next"] = GivenNext
         /\ res["x-nextjs-redirect"] = result.headers["x-nextjs-redirect"]
         /\ fetched[1].method = request.method
         /\ IF GivenRewriteUrl.origin # RequestUrl.origin
              THEN /\ fetched[1].proxy
                   /\ fetched[1].url = GivenRewriteUrl
              ELSE /\ ~fetched[1].proxy
                   /\ fetched[1].url = sameOriginTarget
                   /\ fetched[1].body = request.body
                   /\ fetched[1].headers = request.headers
                   /\ fetched[1].headers["x-middleware-rewrite"] = GivenRewrite

\* C4 (as stated): a rewrite to another URL is fetched and merged through
\* addMiddlewareHeaders without reaching the redirect and x-middleware-next
\* handling; within the origin the request is re-targeted to the rewrite URL.
C4_SameOriginFetchesRewriteUrl == C4_FetchesRewrite(GivenRewriteUrl)

\* C4 (amended): as stated, except that for a data request the same-origin
\* fetch goes to the rewrite URL with its pathname replaced by
\* rewriteDataPath of the request's path and the rewrite's path.
C4_SameOriginFetchesDataPath ==
  C4_FetchesRewrite(
    IF IsDataRequest
      THEN [GivenRewriteUrl EXCEPT
              !.pathname = rewriteDataPath(RequestUrl.pathname, GivenRewriteUrl.pathname)]
      ELSE GivenRewriteUrl)

C4_Witness ==
  /\ RewritesElsewhere
  /\ bpc = "done"
  /\ GivenRewriteUrl.origin = RequestUrl.origin
  /\ IsDataRequest
  /\ request.url.pathname = DataRequestPath
  /\ Len(fetched) = 1
  /\ fetched[1].url.pathname = <<"_next", "data", "B", "b.json">>

\* A redirect with a detected request locale and no rewrite.
RedirectsWithLocale ==
  IsPlain /\ GivenRewrite = Absent /\ GivenLocation # Absent
  /\ options.requestLocale # None

\* The configured locales that the first segment of a path names.
LocalesIn(p) ==
  {l \in {options.nextConfig.i18n.locales[i] :
            i \in 1..Len(options.nextConfig.i18n.locales)} :
     p[1] # "" /\ ToLowerCase(p[1]) = ToLowerCase(l)}

\* C5: with a location header, a request locale and no rewrite, a redirect
\* path that does not start with /api/ becomes /<locale><path without its
\* leading locale>, the locale being the one in the path if there is one and
\* requestLocale otherwise; a path with a locale gets no second one, and a
\* path under /api/ is left as it is.
C5_LocaleSpliced ==
  (RedirectsWithLocale /\ bpc \in {"data_redirect", "middleware_next", "done"}) =>
    LET redirectUrl == NewURL(GivenLocation, request.url)
        path == redirectUrl.pathname
        inPath == LocalesIn(path)
        locale == IF inPath # {} THEN CHOOSE l \in inPath : TRUE
                  ELSE options.requestLocale
        rest == IF inPath = {} THEN path
                ELSE IF Len(path) = 1 THEN Root ELSE Tail(path)
        expected == IF StartsWithApi(path) THEN GivenLocation
                    ELSE Url(redirectUrl.origin, <<locale>> \o rest)
    IN /\ redirect = expected
       /\ (bpc = "data_redirect" \/ ~IsDataRequest) => res["location"] = expected
       /\ (inPath # {} /\ Len(path) > 1) =>
            /\ Len(redirect.pathname) = Len(path)
            /\ Tail(redirect.pathname) = Tail(path)

C5_Witness ==
  /\ RedirectsWithLocale
  /\ bpc = "done"
  /\ GivenLocation = Url("", <<"EN", "b">>)
  /\ options.requestLocale = "fr"
  /\ res["location"] = Url(Origin, <<"en", "b">>)

\* C6: with no rewrite, x-middleware-next equal to '1' is deleted from res
\* and addMiddlewareHeaders(context.next(), res) is returned; otherwise
\* context.next() is not called and res itself is returned.
C6_NextOrRes ==
  (IsPlain /\ GivenRewrite = Absent /\ bpc = "done") =>
    IF GivenNext = Str("1")
      THEN /\ res["x-middleware-next"] = Absent
           /\ returned = "addMiddlewareHeaders(context.next)"
           /\ contextNextCalls = 1
           /\ fetched = <<>>
      ELSE /\ res["x-middleware-next"] = GivenNext
           /\ returned = "res"
           /\ contextNextCalls = 0
           /\ fetched = <<>>

C6_Witness ==
  /\ IsPlain /\ GivenRewrite = Absent /\ bpc = "done"
  /\ GivenNext = Str("1")
  /\ returned = "addMiddlewareHeaders(context.next)"

\* C7: with a location header and no rewrite, the response a data request
\* ends with has no location header and has x-nextjs-redirect holding the
\* redirect target after locale splicing, relativised and then normalised;
\* for any other request location stays and x-nextjs-redirect is not added.
C7_DataRedirectNotExposed ==
  (IsPlain /\ GivenRewrite = Absent /\ GivenLocation # Absent
   /\ bpc \in {"middleware_next", "done"}) =>
    LET target == LocaleRedirect(GivenLocation, request.url,
                                 options.nextConfig.i18n.locales, options.requestLocale)
    IN IF IsDataRequest
         THEN /\ res["location"] = Absent
              /\ res["x-nextjs-redirect"] =
                   normalizeDataUrl(relativizeURL(target, request.url))
              /\ res["x-nextjs-redirect"] # Absent
         ELSE /\ res["location"] = target
              /\ res["location"] # Absent
              /\ res["x-nextjs-redirect"] = result.headers["x-nextjs-redirect"]

C7_Witness ==
  /\ IsPlain /\ GivenRewrite = Absent /\ bpc = "done"
  /\ IsDataRequest
  /\ GivenLocation = Url("", <<"_next", "data", "B", "b.json">>)
  /\ options.requestLocale = "en"
  /\ res["location"] = Absent
  /\ res["x-nextjs-redirect"] = Url("", <<"en", "_next", "data", "B", "b.json">>)

\* C8: a rewrite that resolves to the request's own URL returns undefined
\* with no fetch and no context.next(), and sets neither x-middleware-rewrite
\* nor x-nextjs-rewrite on the response nor x-middleware-rewrite on the
\* request.
C8_SelfRewriteReturns ==
  (IsPlain /\ GivenRewrite # Absent /\ GivenRewriteUrl = RequestUrl) =>
    /\ fetched = <<>>
    /\ contextNextCalls = 0
    /\ request.headers["x-middleware-rewrite"] = Absent
    /\ bpc \in {"start", "plain", "rewrite", "done"}
    /\ bpc = "done" =>
         /\ returned = "undefined"
         /\ res["x-middleware-rewrite"] = GivenRewrite
         /\ res["x-nextjs-rewrite"] = Absent

C8_Witness ==
  /\ IsPlain /\ bpc = "done"
  /\ GivenRewrite = Url(Origin, <<"a">>)
  /\ request.url = Url(Origin, <<"a">>)
  /\ IsDataRequest
  /\ returned = "undefined"

\* C9: the proxy request of a cross-origin rewrite carries no header whose
\* name starts with x-nf- and keeps the method and every other header of the
\* request; the request of a same-origin rewrite fetch carries
\* x-nf-next-middleware: skip.
C9_ProxyDropsInternalHeaders ==
  \A i \in 1..Len(fetched) :
    IF fetched[i].proxy
      THEN /\ \A n \in ReqHeaderNames :
                fetched[i].headers[n] =
                  IF StartsWithXNf(n) THEN Absent ELSE request.headers[n]
           /\ fetched[i].method = request.method
           /\ request.headers["x-nf-next-middleware"] = Str("skip")
      ELSE fetched[i].headers["x-nf-next-middleware"] = Str("skip")

C9_Witness ==
  /\ bpc = "done"
  /\ Len(fetched) = 1
  /\ fetched[1].proxy
  /\ request.headers["x-nf-request-id"] = Str("id")
  /\ request.headers["x-nf-next-middleware"] = Str("skip")
  /\ fetched[1].headers["accept"] = Str("json")
  /\ request.method = "POST"

(***************************************************************************)
(* The text handler: what the claim speaks of.                             *)
(***************************************************************************)

\* C10: with at least one data transform, every chunk but the last is
\* removed; when the whole text parses, the last chunk is replaced by the
\* serialisation of the data with props transformed in registration order;
\* when it does not parse, the script's text comes out as it went in.
C10_ScriptContent ==
  (Len(dataTransforms) > 0 /\ Len(emitted) = Len(chunks) /\ chunks # <<>>) =>
    LET text == Concat(chunks)
        data == JSONParse(Trim(text))
    IN /\ \A i \in 1..(Len(chunks) - 1) : emitted[i] = <<>>
       /\ IF data.ok
            THEN emitted[Len(chunks)] = JSONStringify(Reduce(dataTransforms, data.props))
            ELSE Concat(emitted) = text

====
